---------------------------- MODULE Spec2Model ----------------------------
(***************************************************************************)
(* A model of the IP2Location BIN reader of src/ip2location.go: the        *)
(* metadata loader OpenDBWithReader, the address normalizer checkIP, the   *)
(* range lookup and record assembler of DB.query, and DB.Close.            *)
(*                                                                         *)
(* Numbers keep their width.  A uint32 is a pair <<hi, lo>> of 16-bit      *)
(* limbs and a big.Int (at most 128 bits here) is a tuple of eight 16-bit  *)
(* limbs, most significant first, so that 255.255.255.255 and 2^128 - 1    *)
(* are the numbers the code sees.  A Go string is the tuple of its bytes.  *)
(***************************************************************************)
EXTENDS Integers, Sequences, FiniteSets, TLC

VARIABLES
    file,      \* the immutable database file every reader is opened on
    pc,        \* per handle slot: where its OpenDBWithReader call stands
    db,        \* per handle slot: the DB value the slot holds (NoDB: nil)
    reader,    \* per handle slot: the state of the byte source passed to Open
    openRes,   \* per handle slot: what the last OpenDBWithReader returned
    closeRes,  \* per handle slot: how the Close calls on it ended
    rangesSet, \* whether the package-level range bounds have been set
    res,       \* the query whose result the caller holds
    prev       \* the query before it, when the caller asked the same again

vars == <<file, pc, db, reader, openRes, closeRes, rangesSet, res, prev>>

-----------------------------------------------------------------------------
(* Bounds of the model *)

\* Close calls followed on one handle
MaxCloses == 2
\* the ordinal of the ReadAt call of an operation that an injected I/O
\* error can hit (0: none)
MaxFaultAt == 7
\* iterations of the search loop followed before the query counts as
\* still running
MaxIter == 16

-----------------------------------------------------------------------------
(* Fixed-width arithmetic *)

\* one 16-bit limb holds 0 .. Limb - 1
Limb == 256 * 256

\* uint32(n) for 0 <= n < 2^31
U32FromInt(n) == <<(n \div Limb) % Limb, n % Limb>>

\* a + b in uint32 (wraps modulo 2^32)
U32Add(a, b) ==
    LET lo == a[2] + b[2]
    IN  <<(a[1] + b[1] + (lo \div Limb)) % Limb, lo % Limb>>

\* a - b in uint32 (wraps modulo 2^32)
U32Sub(a, b) ==
    LET lo == a[2] - b[2]
        br == IF lo < 0 THEN 1 ELSE 0
    IN  <<(a[1] - b[1] - br + 2 * Limb) % Limb, (lo + Limb) % Limb>>

\* a * c in uint32 for a multiplier below 2^15 (wraps modulo 2^32)
U32MulSmall(a, c) ==
    LET lo == a[2] * c
    IN  <<(a[1] * c + (lo \div Limb)) % Limb, lo % Limb>>

\* a >> 1 in uint32
U32Shr1(a) == <<a[1] \div 2, (a[2] \div 2) + (Limb \div 2) * (a[1] % 2)>>

U32Leq(a, b) == a[1] < b[1] \/ (a[1] = b[1] /\ a[2] <= b[2])

\* int64(u) of a uint32, as far as a file offset matters: every value from
\* 2^30 on lies beyond the end of any file of the model and reads as 2^30
OffOf(u) == IF u[1] < 16384 THEN u[1] * Limb + u[2] ELSE 16384 * Limb

\* x & bit for a one-bit mask
BitAnd(x, bit) == ((x \div bit) % 2) * bit

\* uint8 arithmetic
U8(n) == ((n % 256) + 256) % 256

\* big.Int values of at most 128 bits: eight limbs, most significant first
BigZero == <<0, 0, 0, 0, 0, 0, 0, 0>>

BigOfU32(u) == <<0, 0, 0, 0, 0, 0, u[1], u[2]>>

\* the low 32 bits of a big.Int, as a uint32
U32OfBig(n) == <<n[7], n[8]>>

RECURSIVE BigCmpFrom(_, _, _)
BigCmpFrom(a, b, i) ==
    IF i > 8 THEN 0
    ELSE IF a[i] < b[i] THEN -1
    ELSE IF a[i] > b[i] THEN 1
    ELSE BigCmpFrom(a, b, i + 1)

\* (*big.Int).Cmp
BigCmp(a, b) == BigCmpFrom(a, b, 1)

\* the borrow into limb i of a - b
RECURSIVE Borrow(_, _, _)
Borrow(a, b, i) ==
    IF i > 8 THEN 0
    ELSE IF a[i] - b[i] - Borrow(a, b, i + 1) < 0 THEN 1 ELSE 0

\* (*big.Int).Sub for a >= b
BigSub(a, b) ==
    [i \in 1..8 |-> (a[i] - b[i] - Borrow(a, b, i + 1) + Limb) % Limb]

BigOne == <<0, 0, 0, 0, 0, 0, 0, 1>>

\* (*big.Int).Rsh by 16 * k bits
BigRshLimbs(n, k) == [i \in 1..8 |-> IF i > k THEN n[i - k] ELSE 0]

\* (*big.Int).SetBytes of a big-endian byte slice of 4 or 16 bytes
SetBytes(b) ==
    IF Len(b) = 4
    THEN <<0, 0, 0, 0, 0, 0, b[1] * 256 + b[2], b[3] * 256 + b[4]>>
    ELSE [i \in 1..8 |-> b[2 * i - 1] * 256 + b[2 * i]]

\* binary.LittleEndian.Uint32 of four bytes
LE32(b) == <<b[3] + 256 * b[4], b[1] + 256 * b[2]>>

\* the four bytes of a uint32, little endian
BytesLE32(u) == <<u[2] % 256, u[2] \div 256, u[1] % 256, u[1] \div 256>>

\* the sixteen bytes of a 128-bit number, little endian
BytesLE128(n) ==
    [i \in 1..16 |->
        LET limb == n[8 - ((i - 1) \div 2)]
        IN  IF i % 2 = 1 THEN limb % 256 ELSE limb \div 256]

Reverse(s) == [i \in 1..Len(s) |-> s[Len(s) + 1 - i]]

-----------------------------------------------------------------------------
(* The constants of the package *)

\* the schema: the column of each attribute for the product types 0 .. 24
\* (0: the product type does not carry it)
countryPosition ==
    <<0, 2, 2, 2, 2, 2, 2, 2, 2, 2, 2, 2, 2, 2, 2, 2, 2, 2, 2, 2, 2, 2, 2, 2, 2>>
regionPosition ==
    <<0, 0, 0, 3, 3, 3, 3, 3, 3, 3, 3, 3, 3, 3, 3, 3, 3, 3, 3, 3, 3, 3, 3, 3, 3>>
cityPosition ==
    <<0, 0, 0, 4, 4, 4, 4, 4, 4, 4, 4, 4, 4, 4, 4, 4, 4, 4, 4, 4, 4, 4, 4, 4, 4>>
ispPosition ==
    <<0, 0, 3, 0, 5, 0, 7, 5, 7, 0, 8, 0, 9, 0, 9, 0, 9, 0, 9, 7, 9, 0, 9, 7, 9>>
latitudePosition ==
    <<0, 0, 0, 0, 0, 5, 5, 0, 5, 5, 5, 5, 5, 5, 5, 5, 5, 5, 5, 5, 5, 5, 5, 5, 5>>
longitudePosition ==
    <<0, 0, 0, 0, 0, 6, 6, 0, 6, 6, 6, 6, 6, 6, 6, 6, 6, 6, 6, 6, 6, 6, 6, 6, 6>>
domainPosition ==
    <<0, 0, 0, 0, 0, 0, 0, 6, 8, 0, 9, 0, 10, 0, 10, 0, 10, 0, 10, 8, 10, 0, 10, 8, 10>>
zipCodePosition ==
    <<0, 0, 0, 0, 0, 0, 0, 0, 0, 7, 7, 7, 7, 0, 7, 7, 7, 0, 7, 0, 7, 7, 7, 0, 7>>
timeZonePosition ==
    <<0, 0, 0, 0, 0, 0, 0, 0, 0, 0, 0, 8, 8, 7, 8, 8, 8, 7, 8, 0, 8, 8, 8, 0, 8>>
netSpeedPosition ==
    <<0, 0, 0, 0, 0, 0, 0, 0, 0, 0, 0, 0, 0, 8, 11, 0, 11, 8, 11, 0, 11, 0, 11, 0, 11>>
iddCodePosition ==
    <<0, 0, 0, 0, 0, 0, 0, 0, 0, 0, 0, 0, 0, 0, 0, 9, 12, 0, 12, 0, 12, 9, 12, 0, 12>>
areaCodePosition ==
    <<0, 0, 0, 0, 0, 0, 0, 0, 0, 0, 0, 0, 0, 0, 0, 10, 13, 0, 13, 0, 13, 10, 13, 0, 13>>
weatherStationCodePosition ==
    <<0, 0, 0, 0, 0, 0, 0, 0, 0, 0, 0, 0, 0, 0, 0, 0, 0, 9, 14, 0, 14, 0, 14, 0, 14>>
weatherStationNamePosition ==
    <<0, 0, 0, 0, 0, 0, 0, 0, 0, 0, 0, 0, 0, 0, 0, 0, 0, 10, 15, 0, 15, 0, 15, 0, 15>>
mccPosition ==
    <<0, 0, 0, 0, 0, 0, 0, 0, 0, 0, 0, 0, 0, 0, 0, 0, 0, 0, 0, 9, 16, 0, 16, 9, 16>>
mncPosition ==
    <<0, 0, 0, 0, 0, 0, 0, 0, 0, 0, 0, 0, 0, 0, 0, 0, 0, 0, 0, 10, 17, 0, 17, 10, 17>>
mobileBrandPosition ==
    <<0, 0, 0, 0, 0, 0, 0, 0, 0, 0, 0, 0, 0, 0, 0, 0, 0, 0, 0, 11, 18, 0, 18, 11, 18>>
elevationPosition ==
    <<0, 0, 0, 0, 0, 0, 0, 0, 0, 0, 0, 0, 0, 0, 0, 0, 0, 0, 0, 0, 0, 11, 19, 0, 19>>
usageTypePosition ==
    <<0, 0, 0, 0, 0, 0, 0, 0, 0, 0, 0, 0, 0, 0, 0, 0, 0, 0, 0, 0, 0, 0, 0, 12, 20>>

\* the field-selector bits
countryShort == 1
countryLong == 2
region == 4
city == 8
isp == 16
latitude == 32
longitude == 64
domain == 128
zipCode == 256
timezone == 512
netSpeed == 1024
iddCode == 2048
areaCode == 4096
weatherStationCode == 8192
weatherStationName == 16384
mcc == 32768
mnc == 65536
mobileBrand == 131072
elevation == 262144
usageType == 524288
all ==
    countryShort + countryLong + region + city + isp + latitude + longitude + domain
    + zipCode + timezone + netSpeed + iddCode + areaCode + weatherStationCode
    + weatherStationName + mcc + mnc + mobileBrand + elevation + usageType

\* "Invalid IP address."
invalidAddress ==
    <<73, 110, 118, 97, 108, 105, 100, 32, 73, 80, 32, 97, 100, 100, 114,
    101, 115, 115, 46>>
\* "Invalid database file."
missingFile ==
    <<73, 110, 118, 97, 108, 105, 100, 32, 100, 97, 116, 97, 98, 97, 115,
    101, 32, 102, 105, 108, 101, 46>>
\* "This parameter is unavailable for selected data file. Please upgrade
\* the data file."
parameterIsNotSupported ==
    <<84, 104, 105, 115, 32, 112, 97, 114, 97, 109, 101, 116, 101, 114,
    32, 105, 115, 32, 117, 110, 97, 118, 97, 105, 108, 97, 98, 108, 101,
    32, 102, 111, 114, 32, 115, 101, 108, 101, 99, 116, 101, 100, 32, 100,
    97, 116, 97, 32, 102, 105, 108, 101, 46, 32, 80, 108, 101, 97, 115,
    101, 32, 117, 112, 103, 114, 97, 100, 101, 32, 116, 104, 101, 32, 100,
    97, 116, 97, 32, 102, 105, 108, 101, 46>>

\* the package-level range bounds
maxIpv4Range == <<0, 0, 0, 0, 0, 0, 65535, 65535>>
fromV4mapped == <<0, 0, 0, 0, 0, 65535, 0, 0>>
toV4mapped == <<0, 0, 0, 0, 0, 65535, 65535, 65535>>
last32bits == <<0, 0, 0, 0, 0, 0, 65535, 65535>>

\* the bounds OpenDBWithReader sets with SetString: their value before the
\* first call, and the value every call gives them
RangesUnset ==
    [maxIpv6Range |-> BigZero, from6to4 |-> BigZero, to6to4 |-> BigZero,
     fromTeredo |-> BigZero, toTeredo |-> BigZero]

RangesFinal ==
    [maxIpv6Range |-> <<65535, 65535, 65535, 65535, 65535, 65535, 65535, 65535>>,
     from6to4 |-> <<8194, 0, 0, 0, 0, 0, 0, 0>>,
     to6to4 |-> <<8194, 65535, 65535, 65535, 65535, 65535, 65535, 65535>>,
     fromTeredo |-> <<8193, 0, 0, 0, 0, 0, 0, 0>>,
     toTeredo |-> <<8193, 0, 65535, 65535, 65535, 65535, 65535, 65535>>]

\* SetString rewrites the words of a set big.Int in place, the low word
\* first: after the first 19 decimal digits are stored, the low 64 bits hold
\* those digits and the high 64 bits still hold the old (final) value
RangesTorn ==
    [maxIpv6Range |-> <<65535, 65535, 65535, 65535, 12089, 16921, 9348, 18106>>,
     from6to4 |-> <<8194, 0, 0, 0, 15115, 17176, 38812, 12990>>,
     to6to4 |-> <<8194, 65535, 65535, 65535, 15117, 6997, 11415, 40937>>,
     fromTeredo |-> <<8193, 0, 0, 0, 15113, 27356, 672, 50580>>,
     toTeredo |-> <<8193, 0, 65535, 65535, 15113, 27357, 56029, 23183>>]

-----------------------------------------------------------------------------
(* The database file.  A file is given by its header and by the rows of    *)
(* its two sections; its bytes are computed from them as the BIN format    *)
(* lays them out: the header, the two index tables when the file has them, *)
(* the v4 rows, the v6 rows, and the string heap the rows point into.      *)

\* ipFrom of the rows of the two sections, ascending from 0; each section
\* ends with an entry whose ipFrom is the maximum address
V4From == << <<0, 0>>, <<256, 0>>, <<256, 32768>>, <<49152, 0>> >>

V6From ==
    << BigZero,
       <<8193, 18528, 0, 0, 0, 0, 0, 0>>,
       <<8194, 0, 0, 0, 0, 0, 0, 0>>,
       <<65280, 0, 0, 0, 0, 0, 0, 0>> >>

\* s = 0: the v4 section, s = 1: the v6 section
NRows(s) == IF s = 0 THEN Len(V4From) ELSE Len(V6From)

MaxIpOf(s) == IF s = 0 THEN maxIpv4Range ELSE RangesFinal.maxIpv6Range

\* ipFrom of entry r (from 0) of section s, as a number
FromOf(s, r) ==
    IF r >= NRows(s) THEN MaxIpOf(s)
    ELSE IF s = 0 THEN BigOfU32(V4From[r + 1]) ELSE V6From[r + 1]

\* the row of section s whose range holds address a
RowOf(s, a) ==
    CHOOSE i \in 0..(NRows(s) - 1) :
        /\ BigCmp(FromOf(s, i), a) <= 0
        /\ \A j \in 0..(NRows(s) - 1) : BigCmp(FromOf(s, j), a) <= 0 => j <= i

\* what the rows hold
CountryShortOf(s, r) == <<67 + r, 83 + s>>

CountryLongOf(s, r) == <<76, 97 + r, 97 + s>>

ElevOf(s, r) == 10 * r + s + 7

RECURSIVE DecString(_)
DecString(n) ==
    IF n < 10 THEN <<48 + n>> ELSE Append(DecString(n \div 10), 48 + (n % 10))

FloatBitsOf(s, r, k) == <<16000 + 8 * s + r, 4096 * k>>

\* the string column k of row r holds
StrOf(f, s, r, k) ==
    IF k = elevationPosition[f.type + 1]
    THEN IF r = 0 THEN <<45>> ELSE DecString(ElevOf(s, r))
    ELSE SubSeq(<<65 + k, 97 + 8 * s + r, 46>>, 1, (r + k) % 4)

IsFloatCol(f, k) ==
    k \in {latitudePosition[f.type + 1], longitudePosition[f.type + 1]}

\* the layout (offsets from 0)
IndexLen == 8 * Limb

Stride(f, s) == IF s = 0 THEN 4 * f.col ELSE 16 + 4 * (f.col - 1)

IndexOff(f, s) == IF s = 0 THEN 64 ELSE 64 + IndexLen

SectionOff(f, s) ==
    LET v4 == IF f.idx THEN 64 + 2 * IndexLen ELSE 64
    IN  IF s = 0 THEN v4 ELSE v4 + (NRows(0) + 1) * Stride(f, 0)

HeapOff(f) == SectionOff(f, 1) + (NRows(1) + 1) * Stride(f, 1)

EntryOff(f, s, r, k) == HeapOff(f) + 8 * ((s * NRows(0) + r) * f.col + (k - 1))

FileLen(f) == HeapOff(f) + 8 * (NRows(0) + NRows(1)) * f.col

HeaderBytes(f) ==
    <<f.type, f.hcol, 20, 6, 1>>
    \o BytesLE32(U32FromInt(NRows(0) + f.extra))
    \o BytesLE32(U32FromInt(SectionOff(f, 0) + f.skip * Stride(f, 0) + 1))
    \o BytesLE32(U32FromInt(NRows(1) + f.extra))
    \o BytesLE32(U32FromInt(SectionOff(f, 1) + 1))
    \o BytesLE32(IF f.idx THEN U32FromInt(IndexOff(f, 0) + 1) ELSE <<0, 0>>)
    \o BytesLE32(IF f.idx THEN U32FromInt(IndexOff(f, 1) + 1) ELSE <<0, 0>>)

\* byte j (from 0) of the index entry of section s for the addresses whose
\* top 16 bits are p: the rows that hold the first and the last of them
IndexByte(s, p, j) ==
    LET fill == IF j < 4 THEN 0 ELSE 65535
        a    == IF s = 0 THEN <<0, 0, 0, 0, 0, 0, p, fill>>
                ELSE <<p, fill, fill, fill, fill, fill, fill, fill>>
    IN  BytesLE32(U32FromInt(RowOf(s, a)))[1 + (j % 4)]

\* byte j (from 0) of entry r of section s: ipFrom, then one 4-byte column
\* for each attribute (the bits of a float, or the offset of a heap entry)
RowByte(f, s, r, j) ==
    LET first == IF s = 0 THEN 4 ELSE 16
        k     == 2 + ((j - first) \div 4)
        v     == IF r >= NRows(s) THEN <<0, 0>>
                 ELSE IF IsFloatCol(f, k) THEN FloatBitsOf(s, r, k)
                 ELSE U32FromInt(EntryOff(f, s, r, k))
    IN  IF j >= first THEN BytesLE32(v)[1 + ((j - first) % 4)]
        ELSE IF s = 0 THEN BytesLE32(U32OfBig(FromOf(s, r)))[j + 1]
        ELSE BytesLE128(FromOf(s, r))[j + 1]

\* a heap entry: the length byte and the bytes of the string; the country
\* entry holds the short code and, three bytes on, the long name
EntryBytes(f, s, r, k) ==
    IF k = 2
    THEN <<2>> \o CountryShortOf(s, r) \o <<3>> \o CountryLongOf(s, r)
    ELSE <<Len(StrOf(f, s, r, k))>> \o StrOf(f, s, r, k)

ByteAt(f, off) ==
    LET InIndex(s, o) == IndexByte(s, o \div 8, o % 8)
        InRows(s, o)  == RowByte(f, s, o \div Stride(f, s), o % Stride(f, s))
        InEntry(bytes, k, b) ==
            IF k >= 2 /\ b < Len(bytes) THEN bytes[b + 1] ELSE 0
        InHeap(e, b) ==
            InEntry(EntryBytes(f, (e \div f.col) \div NRows(0),
                               (e \div f.col) % NRows(0), 1 + (e % f.col)),
                    1 + (e % f.col), b)
    IN  IF off < 29 THEN HeaderBytes(f)[off + 1]
        ELSE IF off < 64 THEN 0
        ELSE IF off < SectionOff(f, 0)
        THEN IF off < IndexOff(f, 1) THEN InIndex(0, off - IndexOff(f, 0))
             ELSE InIndex(1, off - IndexOff(f, 1))
        ELSE IF off < SectionOff(f, 1) THEN InRows(0, off - SectionOff(f, 0))
        ELSE IF off < HeapOff(f) THEN InRows(1, off - SectionOff(f, 1))
        ELSE InHeap((off - HeapOff(f)) \div 8, (off - HeapOff(f)) % 8)

-----------------------------------------------------------------------------
(* The byte source (DBReader): positional reads and Close.  A read fails   *)
(* when the source is closed, when it runs past the end of the file, and   *)
(* when the source reports an I/O error, which it may at any read: rd.failAt *)
(* is the ordinal, among the reads of one operation, of the read that does. *)

\* ReadAt(buf, off) as read number k of the operation, len(buf) = n
ReadAt(f, rd, k, n, off) ==
    IF rd.state # "open" THEN [err |-> "closed", data |-> <<>>]
    ELSE IF k = rd.failAt THEN [err |-> "io", data |-> <<>>]
    ELSE IF off < 0 THEN [err |-> "offset", data |-> <<>>]
    ELSE IF n > 0 /\ off + n > FileLen(f) THEN [err |-> "EOF", data |-> <<>>]
    ELSE [err |-> "nil", data |-> [i \in 1..n |-> ByteAt(f, off + i - 1)]]

-----------------------------------------------------------------------------
(* The DB struct and the record *)

\* a nil slice, a nil *DB, a nil *IP2LocationRecord
Nil == <<>>

ZeroMeta ==
    [databaseType |-> 0, databaseColumn |-> 0, databaseDay |-> 0,
     databaseMonth |-> 0, databaseYear |-> 0,
     ipv4DatabaseCount |-> <<0, 0>>, ipv4DatabaseAddr |-> <<0, 0>>,
     ipv6DatabaseCount |-> <<0, 0>>, ipv6DatabaseAddr |-> <<0, 0>>,
     ipv4IndexBaseAddr |-> <<0, 0>>, ipv6IndexBaseAddr |-> <<0, 0>>,
     ipv4ColumnSize |-> 0, ipv6ColumnSize |-> 0]

\* the zero value of DB (&DB{}): f is the nil reader
ZeroDB ==
    [f |-> 0, meta |-> ZeroMeta,
     countryPositionOffset |-> 0, countryEnabled |-> FALSE,
     regionPositionOffset |-> 0, regionEnabled |-> FALSE,
     cityPositionOffset |-> 0, cityEnabled |-> FALSE,
     ispPositionOffset |-> 0, ispEnabled |-> FALSE,
     domainPositionOffset |-> 0, domainEnabled |-> FALSE,
     zipcodePositionOffset |-> 0, zipcodeEnabled |-> FALSE,
     latitudePositionOffset |-> 0, latitudeEnabled |-> FALSE,
     longitudePositionOffset |-> 0, longitudeEnabled |-> FALSE,
     timezonePositionOffset |-> 0, timeZoneEnabled |-> FALSE,
     netSpeedPositionOffset |-> 0, netSpeedEnabled |-> FALSE,
     iddCodePositionOffset |-> 0, iddCodeEnabled |-> FALSE,
     areaCodePositionOffset |-> 0, areaCodeEnabled |-> FALSE,
     weatherStationCodePositionOffset |-> 0, weatherStationCodeEnabled |-> FALSE,
     weatherStationNamePositionOffset |-> 0, weatherStationNameEnabled |-> FALSE,
     mccPositionOffset |-> 0, mccEnabled |-> FALSE,
     mncPositionOffset |-> 0, mncEnabled |-> FALSE,
     mobileBrandPositionOffset |-> 0, mobileBrandEnabled |-> FALSE,
     elevationPositionOffset |-> 0, elevationEnabled |-> FALSE,
     usageTypePositionOffset |-> 0, usageTypeEnabled |-> FALSE,
     metaOk |-> FALSE]

\* the attributes as OpenDBWithReader goes through them: the schema array,
\* the offset field and the enable flag of each
Schema ==
    <<
       [pos |-> countryPosition, off |-> "countryPositionOffset", en |-> "countryEnabled"],
       [pos |-> regionPosition, off |-> "regionPositionOffset", en |-> "regionEnabled"],
       [pos |-> cityPosition, off |-> "cityPositionOffset", en |-> "cityEnabled"],
       [pos |-> ispPosition, off |-> "ispPositionOffset", en |-> "ispEnabled"],
       [pos |-> domainPosition, off |-> "domainPositionOffset", en |-> "domainEnabled"],
       [pos |-> zipCodePosition, off |-> "zipcodePositionOffset", en |-> "zipcodeEnabled"],
       [pos |-> latitudePosition, off |-> "latitudePositionOffset", en |-> "latitudeEnabled"],
       [pos |-> longitudePosition, off |-> "longitudePositionOffset", en |-> "longitudeEnabled"],
       [pos |-> timeZonePosition, off |-> "timezonePositionOffset", en |-> "timeZoneEnabled"],
       [pos |-> netSpeedPosition, off |-> "netSpeedPositionOffset", en |-> "netSpeedEnabled"],
       [pos |-> iddCodePosition, off |-> "iddCodePositionOffset", en |-> "iddCodeEnabled"],
       [pos |-> areaCodePosition, off |-> "areaCodePositionOffset", en |-> "areaCodeEnabled"],
       [pos |-> weatherStationCodePosition, off |-> "weatherStationCodePositionOffset", en |-> "weatherStationCodeEnabled"],
       [pos |-> weatherStationNamePosition, off |-> "weatherStationNamePositionOffset", en |-> "weatherStationNameEnabled"],
       [pos |-> mccPosition, off |-> "mccPositionOffset", en |-> "mccEnabled"],
       [pos |-> mncPosition, off |-> "mncPositionOffset", en |-> "mncEnabled"],
       [pos |-> mobileBrandPosition, off |-> "mobileBrandPositionOffset", en |-> "mobileBrandEnabled"],
       [pos |-> elevationPosition, off |-> "elevationPositionOffset", en |-> "elevationEnabled"],
       [pos |-> usageTypePosition, off |-> "usageTypePositionOffset", en |-> "usageTypeEnabled"]
    >>

\* the slots of the record as query goes through them: the selector bit, the
\* schema array, the offset field and the enable flag it reads, and how the
\* column is decoded (str: the string the column points to; str3: the string
\* three bytes after it; float: the column itself; elev: the string, parsed)
Fields ==
    <<
       [slot |-> "CountryShort", bit |-> countryShort, pos |-> countryPosition,
        off |-> "countryPositionOffset", en |-> "countryEnabled", kind |-> "str"],
       [slot |-> "CountryLong", bit |-> countryLong, pos |-> countryPosition,
        off |-> "countryPositionOffset", en |-> "countryEnabled", kind |-> "str3"],
       [slot |-> "Region", bit |-> region, pos |-> regionPosition,
        off |-> "regionPositionOffset", en |-> "regionEnabled", kind |-> "str"],
       [slot |-> "City", bit |-> city, pos |-> cityPosition,
        off |-> "cityPositionOffset", en |-> "cityEnabled", kind |-> "str"],
       [slot |-> "Isp", bit |-> isp, pos |-> ispPosition,
        off |-> "ispPositionOffset", en |-> "ispEnabled", kind |-> "str"],
       [slot |-> "Latitude", bit |-> latitude, pos |-> latitudePosition,
        off |-> "latitudePositionOffset", en |-> "latitudeEnabled", kind |-> "float"],
       [slot |-> "Longitude", bit |-> longitude, pos |-> longitudePosition,
        off |-> "longitudePositionOffset", en |-> "longitudeEnabled", kind |-> "float"],
       [slot |-> "Domain", bit |-> domain, pos |-> domainPosition,
        off |-> "domainPositionOffset", en |-> "domainEnabled", kind |-> "str"],
       [slot |-> "ZipCode", bit |-> zipCode, pos |-> zipCodePosition,
        off |-> "zipcodePositionOffset", en |-> "zipcodeEnabled", kind |-> "str"],
       [slot |-> "Timezone", bit |-> timezone, pos |-> timeZonePosition,
        off |-> "timezonePositionOffset", en |-> "timeZoneEnabled", kind |-> "str"],
       [slot |-> "NetSpeed", bit |-> netSpeed, pos |-> netSpeedPosition,
        off |-> "netSpeedPositionOffset", en |-> "netSpeedEnabled", kind |-> "str"],
       [slot |-> "IddCode", bit |-> iddCode, pos |-> iddCodePosition,
        off |-> "iddCodePositionOffset", en |-> "iddCodeEnabled", kind |-> "str"],
       [slot |-> "AreaCode", bit |-> areaCode, pos |-> areaCodePosition,
        off |-> "areaCodePositionOffset", en |-> "areaCodeEnabled", kind |-> "str"],
       [slot |-> "WeatherStationCode", bit |-> weatherStationCode, pos |-> weatherStationCodePosition,
        off |-> "weatherStationCodePositionOffset", en |-> "weatherStationCodeEnabled", kind |-> "str"],
       [slot |-> "WeatherStationName", bit |-> weatherStationName, pos |-> weatherStationNamePosition,
        off |-> "weatherStationNamePositionOffset", en |-> "weatherStationNameEnabled", kind |-> "str"],
       [slot |-> "MCC", bit |-> mcc, pos |-> mccPosition,
        off |-> "mccPositionOffset", en |-> "mccEnabled", kind |-> "str"],
       [slot |-> "MNC", bit |-> mnc, pos |-> mncPosition,
        off |-> "mncPositionOffset", en |-> "mncEnabled", kind |-> "str"],
       [slot |-> "MobileBrand", bit |-> mobileBrand, pos |-> mobileBrandPosition,
        off |-> "mobileBrandPositionOffset", en |-> "mobileBrandEnabled", kind |-> "str"],
       [slot |-> "Elevation", bit |-> elevation, pos |-> elevationPosition,
        off |-> "elevationPositionOffset", en |-> "elevationEnabled", kind |-> "elev"],
       [slot |-> "UsageType", bit |-> usageType, pos |-> usageTypePosition,
        off |-> "usageTypePositionOffset", en |-> "usageTypeEnabled", kind |-> "str"]
    >>

StringSlots == {Fields[i].slot : i \in {j \in DOMAIN Fields : Fields[j].kind \in {"str", "str3"}}}

FloatSlots == {"Latitude", "Longitude"}

\* float32 slots hold the 32 bits of the number; Elevation holds the number
\* strconv.ParseFloat gave
loadMessage(mesg) ==
    [
     CountryShort |-> mesg,
     CountryLong |-> mesg,
     Region |-> mesg,
     City |-> mesg,
     Isp |-> mesg,
     Domain |-> mesg,
     ZipCode |-> mesg,
     Timezone |-> mesg,
     NetSpeed |-> mesg,
     IddCode |-> mesg,
     AreaCode |-> mesg,
     WeatherStationCode |-> mesg,
     WeatherStationName |-> mesg,
     MCC |-> mesg,
     MNC |-> mesg,
     MobileBrand |-> mesg,
     UsageType |-> mesg,
     Latitude |-> <<0, 0>>, Longitude |-> <<0, 0>>, Elevation |-> 0]

-----------------------------------------------------------------------------
(* The primitive decoder.  Every read returns [err, val]; k is the number  *)
(* of ReadAt calls the operation has issued before it.                     *)

readUint8(f, rd, k, pos) ==
    LET Got(r) == [err |-> r.err, val |-> IF r.err = "nil" THEN r.data[1] ELSE 0]
    IN  Got(ReadAt(f, rd, k + 1, 1, pos - 1))

readUint32(f, rd, k, pos) ==
    LET Got(r) ==
            [err |-> r.err, val |-> IF r.err = "nil" THEN LE32(r.data) ELSE <<0, 0>>]
    IN  Got(ReadAt(f, rd, k + 1, 4, OffOf(pos) - 1))

readUint128(f, rd, k, pos) ==
    LET Got(r) ==
            [err |-> r.err,
             val |-> IF r.err = "nil" THEN SetBytes(Reverse(r.data)) ELSE Nil]
    IN  Got(ReadAt(f, rd, k + 1, 16, OffOf(pos) - 1))

\* a readStr that loses the error of its reads
readStrSwallow(f, rd, k, pos) ==
    LET Body(data) == [err |-> "nil", val |-> data.data, reads |-> 2]
        Lead(lenbyte) ==
            IF lenbyte.err # "nil" THEN [err |-> "nil", val |-> <<>>, reads |-> 1]
            ELSE Body(ReadAt(f, rd, k + 2, lenbyte.data[1], OffOf(pos) + 1))
    IN  Lead(ReadAt(f, rd, k + 1, 1, OffOf(pos)))

\* the length byte at pos, then that many bytes
readStr(f, rd, k, pos) ==
    LET Body(data) ==
            IF data.err # "nil" THEN [err |-> data.err, val |-> <<>>, reads |-> 2]
            ELSE [err |-> "nil", val |-> data.data, reads |-> 2]
        Lead(lenbyte) ==
            IF lenbyte.err # "nil"
            THEN [err |-> lenbyte.err, val |-> <<>>, reads |-> 1]
            ELSE Body(ReadAt(f, rd, k + 2, lenbyte.data[1], OffOf(pos) + 1))
    IN  Lead(ReadAt(f, rd, k + 1, 1, OffOf(pos)))

\* row[pos : pos+4] is within the row buffer
RowHolds(row, pos) == pos + 4 <= Len(row)

readUint32Row(row, pos) == LE32(SubSeq(row, pos + 1, pos + 4))

\* math.Float32frombits keeps the bits
readFloatRow(row, pos) == LE32(SubSeq(row, pos + 1, pos + 4))

IsDigits(str) == Len(str) > 0 /\ \A i \in 1..Len(str) : str[i] \in 48..57

RECURSIVE DigitsValue(_)
DigitsValue(str) ==
    IF Len(str) = 0 THEN 0
    ELSE 10 * DigitsValue(SubSeq(str, 1, Len(str) - 1)) + (str[Len(str)] - 48)

\* f, _ := strconv.ParseFloat(res, 32) for a string that is a decimal
\* integer of a few digits with an optional sign, or no number at all (then
\* the error is dropped and f is 0)
ParseElev(str) ==
    IF IsDigits(str) THEN DigitsValue(str)
    ELSE IF Len(str) > 1 /\ str[1] \in {43, 45} /\ IsDigits(Tail(str))
    THEN (IF str[1] = 45 THEN -1 ELSE 1) * DigitsValue(Tail(str))
    ELSE 0

-----------------------------------------------------------------------------
(* OpenDBWithReader *)

\* the header fields in the order they are read: the meta field, its
\* position (from 1) and its width in bytes
HeaderFields ==
    << [name |-> "databaseType", pos |-> 1, width |-> 1],
       [name |-> "databaseColumn", pos |-> 2, width |-> 1],
       [name |-> "databaseYear", pos |-> 3, width |-> 1],
       [name |-> "databaseMonth", pos |-> 4, width |-> 1],
       [name |-> "databaseDay", pos |-> 5, width |-> 1],
       [name |-> "ipv4DatabaseCount", pos |-> 6, width |-> 4],
       [name |-> "ipv4DatabaseAddr", pos |-> 10, width |-> 4],
       [name |-> "ipv6DatabaseCount", pos |-> 14, width |-> 4],
       [name |-> "ipv6DatabaseAddr", pos |-> 18, width |-> 4],
       [name |-> "ipv4IndexBaseAddr", pos |-> 22, width |-> 4],
       [name |-> "ipv6IndexBaseAddr", pos |-> 26, width |-> 4] >>

\* header read number i (the reads before it succeeded)
HeaderRead(f, rd, i) ==
    IF HeaderFields[i].width = 1
    THEN readUint8(f, rd, i - 1, HeaderFields[i].pos)
    ELSE readUint32(f, rd, i - 1, U32FromInt(HeaderFields[i].pos))

\* lines 346-389: the header reads from number i on, in order, into meta;
\* the first read that fails ends them
RECURSIVE ReadHeader(_, _, _, _)
ReadHeader(f, rd, i, meta) ==
    LET Got(r) ==
            IF r.err # "nil" THEN [err |-> r.err, meta |-> meta]
            ELSE ReadHeader(f, rd, i + 1,
                            [meta EXCEPT ![HeaderFields[i].name] = r.val])
    IN  IF i > Len(HeaderFields) THEN [err |-> "nil", meta |-> meta]
        ELSE Got(HeaderRead(f, rd, i))

\* uint32(databaseColumn << 2), the shift done in uint8
V4ColumnSize(col) == U8(col * 4)

\* uint32(16 + ((databaseColumn - 1) << 2)), all of it done in uint8
V6ColumnSize(col) == U8(16 + U8(U8(col - 1) * 4))

\* lines 393-470: uint32(position[dbt]-2) << 2 and the enable flag of every
\* attribute the product type carries
WithSchema(d, dbt) ==
    [name \in DOMAIN d |->
        IF \E i \in DOMAIN Schema : Schema[i].off = name
        THEN LET i == CHOOSE j \in DOMAIN Schema : Schema[j].off = name
             IN  IF Schema[i].pos[dbt + 1] # 0
                 THEN U8(Schema[i].pos[dbt + 1] - 2) * 4 ELSE d[name]
        ELSE IF \E i \in DOMAIN Schema : Schema[i].en = name
        THEN LET i == CHOOSE j \in DOMAIN Schema : Schema[j].en = name
             IN  IF Schema[i].pos[dbt + 1] # 0 THEN TRUE ELSE d[name]
        ELSE d[name]]

\* fatal that leaves the byte source open
fatalKeepOpen(err) == [db |-> Nil, err |-> err, closed |-> FALSE, ret |-> "returned"]

\* fatal(db, err): closes the byte source, returns nil and the error
fatal(err) == [db |-> Nil, err |-> err, closed |-> TRUE, ret |-> "returned"]

\* what OpenDBWithReader(reader) returns for the reader rd on file f, and
\* whether it closed the reader; h is the reader's name
OpenDBWithReader(f, rd, h) ==
    LET Sized(meta) ==
            [meta EXCEPT !.ipv4ColumnSize = V4ColumnSize(meta.databaseColumn),
                         !.ipv6ColumnSize = V6ColumnSize(meta.databaseColumn)]
        Loaded(meta) ==
            [WithSchema([ZeroDB EXCEPT !.f = h, !.meta = Sized(meta)],
                        meta.databaseType) EXCEPT !.metaOk = TRUE]
        Done(hdr) ==
            IF hdr.err # "nil" THEN fatal(hdr.err)
            ELSE IF hdr.meta.databaseType > 24
            THEN \* countryPosition[dbt]: index out of range
                 [db |-> Nil, err |-> "nil", closed |-> FALSE, ret |-> "panic"]
            ELSE [db |-> Loaded(hdr.meta), err |-> "nil", closed |-> FALSE,
                  ret |-> "returned"]
    IN  Done(ReadHeader(f, rd, 1, ZeroMeta))

-----------------------------------------------------------------------------
(* checkIP *)

\* The ip strings of the model, by their syntax:
\*   dotted: "a.b.c.d"          mapped: "::ffff:a.b.c.d"
\*   colon:  "h1:h2:...:h8"     bad:    anything net.ParseIP rejects
Dotted(a, b, c, d) == [form |-> "dotted", o |-> <<a, b, c, d>>, h |-> <<>>]
Mapped(a, b, c, d) == [form |-> "mapped", o |-> <<a, b, c, d>>, h |-> <<>>]
Colon(h) == [form |-> "colon", o |-> <<>>, h |-> h]
BadIP == [form |-> "bad", o |-> <<>>, h |-> <<>>]

v4InV6Prefix == <<0, 0, 0, 0, 0, 0, 0, 0, 0, 0, 255, 255>>

\* the 16 bytes of eight 16-bit groups, the high byte of a group first
GroupBytes(h) ==
    [i \in 1..16 |->
        IF i % 2 = 1 THEN h[(i + 1) \div 2] \div 256 ELSE h[i \div 2] % 256]

\* net.ParseIP: the 16-byte form of the address, nil for no address; a
\* dotted quad gives net.IPv4(a, b, c, d), and "::ffff:a.b.c.d" is parsed as
\* an IPv6 address whose last two groups are the dotted quad
ParseIP(ip) ==
    IF ip.form = "dotted"
    THEN IF \A i \in 1..4 : ip.o[i] \in 0..255 THEN v4InV6Prefix \o ip.o ELSE Nil
    ELSE IF ip.form = "mapped"
    THEN IF \A i \in 1..4 : ip.o[i] \in 0..255
         THEN GroupBytes(<<0, 0, 0, 0, 0, 65535,
                           256 * ip.o[1] + ip.o[2], 256 * ip.o[3] + ip.o[4]>>)
         ELSE Nil
    ELSE IF ip.form = "colon"
    THEN IF \A i \in 1..8 : ip.h[i] \in 0..65535 THEN GroupBytes(ip.h) ELSE Nil
    ELSE Nil

\* net.IP.To4 of a 16-byte address
To4(b) == IF SubSeq(b, 1, 12) = v4InV6Prefix THEN SubSeq(b, 13, 16) ELSE Nil

\* ipNum.And(ipNum, last32bits)
AndLast32(n) == [i \in 1..8 |-> IF last32bits[i] = Limb - 1 THEN n[i] ELSE 0]

\* ipNum.Not(ipNum) then ipNum.And(ipNum, last32bits): Not gives -n-1, whose
\* two's complement And keeps the complemented low 32 bits
NotAndLast32(n) ==
    [i \in 1..8 |-> IF last32bits[i] = Limb - 1 THEN Limb - 1 - n[i] ELSE 0]

InRange(n, from, to) == BigCmp(n, from) >= 0 /\ BigCmp(n, to) <= 0

\* a classification that masks the Teredo number without complementing it
Classify6NoNot(n, rng) ==
    IF InRange(n, fromV4mapped, toV4mapped)
    THEN [ipType |-> 4, ipNum |-> BigSub(n, fromV4mapped)]
    ELSE IF InRange(n, rng.from6to4, rng.to6to4)
    THEN [ipType |-> 4, ipNum |-> AndLast32(BigRshLimbs(n, 5))]
    ELSE IF InRange(n, rng.fromTeredo, rng.toTeredo)
    THEN [ipType |-> 4, ipNum |-> AndLast32(n)]
    ELSE [ipType |-> 6, ipNum |-> n]

\* lines 188-205: the kind and number of a 16-byte address that is no
\* dotted quad, under the range bounds rng the call reads
Classify6(n, rng) ==
    IF InRange(n, fromV4mapped, toV4mapped)
    THEN [ipType |-> 4, ipNum |-> BigSub(n, fromV4mapped)]
    ELSE IF InRange(n, rng.from6to4, rng.to6to4)
    THEN [ipType |-> 4, ipNum |-> AndLast32(BigRshLimbs(n, 5))]
    ELSE IF InRange(n, rng.fromTeredo, rng.toTeredo)
    THEN [ipType |-> 4, ipNum |-> NotAndLast32(n)]
    ELSE [ipType |-> 6, ipNum |-> n]

\* an index offset that leaves out the << 3
IndexOfUnscaled(ipNum, limbs, base) ==
    U32Add(U32FromInt(BigRshLimbs(ipNum, limbs)[8]), base)

\* uint32(((ipNum >> shift) << 3) + base), shift = 16 * limbs; what is left
\* of ipNum after the shift is below 2^16
IndexOf(ipNum, limbs, base) ==
    U32Add(U32FromInt(BigRshLimbs(ipNum, limbs)[8] * 8), base)

\* a checkIP that takes every address written with colons for an IPv6
\* address and remaps none
checkIPByForm(d, ip, rng) ==
    LET Kind(ipaddress) ==
            IF ipaddress = Nil
            THEN [ipType |-> 0, ipNum |-> BigZero, ipIndex |-> <<0, 0>>]
            ELSE IF ip.form = "dotted"
            THEN [ipType |-> 4, ipNum |-> SetBytes(SubSeq(ipaddress, 13, 16)),
                  ipIndex |-> <<0, 0>>]
            ELSE [ipType |-> 6, ipNum |-> SetBytes(ipaddress), ipIndex |-> <<0, 0>>]
    IN  Kind(ParseIP(ip))

\* a checkIP that takes every string for an address
checkIPAcceptAll(d, ip, rng) ==
    [ipType |-> 4, ipNum |-> BigZero, ipIndex |-> <<0, 0>>]

checkIP(d, ip, rng) ==
    LET Kind(ipaddress, v4) ==
            IF ipaddress = Nil THEN [ipType |-> 0, ipNum |-> BigZero]
            ELSE IF v4 # Nil THEN [ipType |-> 4, ipNum |-> SetBytes(v4)]
            ELSE Classify6(SetBytes(ipaddress), rng)
        Parsed(ipaddress) ==
            Kind(ipaddress, IF ipaddress = Nil THEN Nil ELSE To4(ipaddress))
        Indexed(c) ==
            [ipType |-> c.ipType, ipNum |-> c.ipNum,
             ipIndex |->
                IF c.ipType = 4 /\ d.meta.ipv4IndexBaseAddr # <<0, 0>>
                THEN IndexOf(c.ipNum, 1, d.meta.ipv4IndexBaseAddr)
                ELSE IF c.ipType = 6 /\ d.meta.ipv6IndexBaseAddr # <<0, 0>>
                THEN IndexOf(c.ipNum, 7, d.meta.ipv6IndexBaseAddr)
                ELSE <<0, 0>>]
    IN  Indexed(Parsed(ParseIP(ip)))

-----------------------------------------------------------------------------
(* query *)

\* what a query returns: ret is "returned", "panic" (the call aborted) or
\* "running" (the search loop had not ended after MaxIter iterations); reads
\* counts the ReadAt calls it issued; matched is <<mid>> for the row it
\* decoded
Outcome(ret, x, err, reads, matched) ==
    [ret |-> ret, x |-> x, err |-> err, reads |-> reads, matched |-> matched]

\* mode & bit, as query tests it
Requested(mode, fld) ==
    IF fld.slot = "CountryShort" THEN BitAnd(mode, fld.bit) = 1
    ELSE BitAnd(mode, fld.bit) # 0

\* the default record of a query that clears the slots
DefaultRecordEmpty == loadMessage(<<>>)

\* x := loadMessage(parameterIsNotSupported)
DefaultRecord == loadMessage(parameterIsNotSupported)

\* a decoder that takes every attribute for enabled
EnabledAlways(d, fld) == TRUE

\* the enable flag query tests for a slot
Enabled(d, fld) == d[fld.en]

\* lines 712-832: the slots from Fields[i] on, for the row buffer row
RECURSIVE Decode(_, _, _, _, _, _, _, _, _)
Decode(f, rd, d, mode, row, mid, i, x, k) ==
    LET fld == Fields[i]
        Stored(str) ==
            IF fld.kind = "elev"
            THEN IF str.err # "nil" THEN x
                 ELSE [x EXCEPT ![fld.slot] = ParseElev(str.val)]
            ELSE [x EXCEPT ![fld.slot] = str.val]
        Read(str) ==
            IF str.err # "nil"
            THEN Outcome("returned", Stored(str), str.err, k + str.reads, <<mid>>)
            ELSE Decode(f, rd, d, mode, row, mid, i + 1, Stored(str), k + str.reads)
        At(col) ==
            Read(readStr(f, rd, k,
                         IF fld.kind = "str3" THEN U32Add(col, <<0, 3>>) ELSE col))
    IN  IF i > Len(Fields) THEN Outcome("returned", x, "nil", k, <<mid>>)
        ELSE IF ~(Requested(mode, fld) /\ Enabled(d, fld))
        THEN Decode(f, rd, d, mode, row, mid, i + 1, x, k)
        ELSE IF ~RowHolds(row, d[fld.off])
        THEN \* slice bounds out of range
             Outcome("panic", Nil, "nil", k, <<mid>>)
        ELSE IF fld.kind = "float"
        THEN Decode(f, rd, d, mode, row, mid, i + 1,
                    [x EXCEPT ![fld.slot] = readFloatRow(row, d[fld.off])], k)
        ELSE At(readUint32Row(row, d[fld.off]))

\* lines 700-710: the row buffer of the matched row, then its slots; a
\* buffer size that wrapped (colsize < firstcol) is close to 2^32 bytes:
\* either the allocation aborts the program or the read into it fails
Fetch(f, rd, d, mode, iptype, colsize, rowoffset, mid, x, k) ==
    LET firstcol == IF iptype = 6 THEN 16 ELSE 4
        Got(row) ==
            IF row.err # "nil" THEN Outcome("returned", x, row.err, k + 1, <<mid>>)
            ELSE Decode(f, rd, d, mode, row.data, mid, 1, x, k + 1)
    IN  IF colsize < firstcol /\ rd.alloc = "abort"
        THEN Outcome("panic", Nil, "nil", k, <<mid>>)
        ELSE Got(ReadAt(f, rd, k + 1,
                        IF colsize < firstcol THEN 16384 * Limb
                        ELSE colsize - firstcol,
                        OffOf(U32Sub(U32Add(rowoffset, <<0, firstcol>>), <<0, 1>>))))

\* a decrement that never happens
DecrementNever(ipno, maxip) == ipno

\* lines 666-668 (ipno >= maxip >= 1 whenever the bounds are set)
DecrementAtMax(ipno, maxip) ==
    IF BigCmp(ipno, maxip) >= 0 THEN BigSub(ipno, BigOne) ELSE ipno

\* a match test that takes ipto for part of the row
MatchesInclusive(ipno, ipfrom, ipto) ==
    BigCmp(ipno, ipfrom) >= 0 /\ BigCmp(ipno, ipto) <= 0

\* line 700
Matches(ipno, ipfrom, ipto) ==
    BigCmp(ipno, ipfrom) >= 0 /\ BigCmp(ipno, ipto) < 0

\* line 671, in uint32
MidOf(low, high) == U32Shr1(U32Add(low, high))

\* lines 670-841: the search loop from the window [low, high]
RECURSIVE Search(_, _, _, _, _, _, _, _, _, _, _, _)
Search(f, rd, d, mode, iptype, ipno, baseaddr, colsize, low, high, x, st) ==
    LET Wide(r) == [err |-> r.err, val |-> BigOfU32(r.val)]
        ReadIP(k, pos) ==
            IF iptype = 4 THEN Wide(readUint32(f, rd, k, pos))
            ELSE readUint128(f, rd, k, pos)
        Row(mid, rowoffset, from, to) ==
            IF from.err # "nil"
            THEN Outcome("returned", x, from.err, st.k + 1, <<>>)
            ELSE IF to.err # "nil"
            THEN Outcome("returned", x, to.err, st.k + 2, <<>>)
            ELSE IF Matches(ipno, from.val, to.val)
            THEN Fetch(f, rd, d, mode, iptype, colsize, rowoffset, mid, x, st.k + 2)
            ELSE IF BigCmp(ipno, from.val) < 0
            THEN Search(f, rd, d, mode, iptype, ipno, baseaddr, colsize,
                        low, U32Sub(mid, <<0, 1>>), x,
                        [k |-> st.k + 2, fuel |-> st.fuel - 1])
            ELSE Search(f, rd, d, mode, iptype, ipno, baseaddr, colsize,
                        U32Add(mid, <<0, 1>>), high, x,
                        [k |-> st.k + 2, fuel |-> st.fuel - 1])
        At(mid, rowoffset) ==
            Row(mid, rowoffset, ReadIP(st.k, rowoffset),
                ReadIP(st.k + 1, U32Add(rowoffset, <<0, colsize>>)))
        Probe(mid) == At(mid, U32Add(baseaddr, U32MulSmall(mid, colsize)))
    IN  IF ~U32Leq(low, high) THEN Outcome("returned", x, "nil", st.k, <<>>)
        ELSE IF st.fuel = 0 THEN Outcome("running", Nil, "nil", st.k, <<>>)
        ELSE Probe(MidOf(low, high))

\* (d *DB) query(ip, mode) on file f through the reader rd, reading the
\* package-level range bounds as rng
query(f, rd, d, ip, mode, rng) ==
    LET x == DefaultRecord
        Window(c, ipno, lo, hi) ==
            IF lo.err # "nil" THEN Outcome("returned", x, lo.err, 1, <<>>)
            ELSE IF hi.err # "nil" THEN Outcome("returned", x, hi.err, 2, <<>>)
            ELSE Search(f, rd, d, mode, c.ipType, ipno,
                        IF c.ipType = 4 THEN d.meta.ipv4DatabaseAddr
                        ELSE d.meta.ipv6DatabaseAddr,
                        IF c.ipType = 4 THEN d.meta.ipv4ColumnSize
                        ELSE d.meta.ipv6ColumnSize,
                        lo.val, hi.val, x,
                        [k |-> IF c.ipIndex # <<0, 0>> THEN 2 ELSE 0,
                         fuel |-> MaxIter])
        Whole(c) ==
            [err |-> "nil",
             val |-> IF c.ipType = 4 THEN d.meta.ipv4DatabaseCount
                     ELSE d.meta.ipv6DatabaseCount]
        Checked(c) ==
            IF c.ipType = 0
            THEN Outcome("returned", loadMessage(invalidAddress), "nil", 0, <<>>)
            ELSE Window(c,
                        DecrementAtMax(c.ipNum, IF c.ipType = 4 THEN maxIpv4Range
                                                ELSE rng.maxIpv6Range),
                        IF c.ipIndex # <<0, 0>>
                        THEN readUint32(f, rd, 0, c.ipIndex)
                        ELSE [err |-> "nil", val |-> <<0, 0>>],
                        IF c.ipIndex # <<0, 0>>
                        THEN readUint32(f, rd, 1, U32Add(c.ipIndex, <<0, 4>>))
                        ELSE Whole(c))
    IN  IF ~d.metaOk
        THEN Outcome("returned", loadMessage(missingFile), "nil", 0, <<>>)
        ELSE Checked(checkIP(d, ip, rng))

-----------------------------------------------------------------------------
(* The inputs of the model *)

\* A file is [type, col, hcol, idx, extra, skip]: the product type, the
\* columns of its rows, the column count its header names, whether it has
\* index tables, how many entries past the rows the row counts of its
\* header take in, and how many rows past the first the v4 start address
\* of its header lies.
\* DB1 without index tables; DB24 with index tables and row counts that
\* take in the closing entry; DB5 with index tables; a file whose header
\* names product type 1 and a single column; a file of 64 columns; and a
\* file whose header names no column and a v4 section that starts at its
\* second row
Files ==
    { [type |-> 1, col |-> 2, hcol |-> 2, idx |-> FALSE, extra |-> 0, skip |-> 0],
      [type |-> 24, col |-> 20, hcol |-> 20, idx |-> TRUE, extra |-> 1, skip |-> 0],
      [type |-> 5, col |-> 6, hcol |-> 6, idx |-> TRUE, extra |-> 0, skip |-> 0],
      [type |-> 1, col |-> 1, hcol |-> 1, idx |-> FALSE, extra |-> 0, skip |-> 0],
      [type |-> 1, col |-> 64, hcol |-> 64, idx |-> FALSE, extra |-> 0, skip |-> 0],
      [type |-> 1, col |-> 2, hcol |-> 0, idx |-> FALSE, extra |-> 0, skip |-> 1] }

\* the header describes the rows, which start at address 0, and every
\* enabled column lies within them
WellFormed(f) ==
    /\ f.hcol = f.col
    /\ f.col < 64
    /\ f.skip = 0
    /\ \A i \in DOMAIN Schema : Schema[i].pos[f.type + 1] <= f.col

MaxV6 == <<65535, 65535, 65535, 65535, 65535, 65535, 65535, 65535>>

IPs ==
    { Dotted(0, 0, 0, 0), Dotted(0, 255, 255, 255), Dotted(1, 0, 0, 0),
      Dotted(1, 0, 127, 255), Dotted(1, 0, 128, 0), Dotted(8, 8, 8, 8),
      Dotted(192, 0, 0, 0), Dotted(255, 255, 255, 254),
      Dotted(255, 255, 255, 255), Mapped(8, 8, 8, 8),
      Colon(<<0, 0, 0, 0, 0, 0, 0, 1>>),
      Colon(<<8193, 18528, 18528, 0, 0, 0, 0, 34952>>),
      Colon(<<8193, 0, 16, 0, 0, 0, 63479, 63479>>),
      Colon(<<8194, 0, 0, 0, 0, 0, 0, 0>>),
      Colon(<<8194, 2056, 2056, 0, 0, 0, 0, 1>>),
      Colon(<<65280, 0, 0, 0, 0, 0, 0, 0>>),
      Colon(<<65535, 65535, 65535, 65535, 65535, 65535, 65535, 65534>>),
      Colon(MaxV6),
      Dotted(256, 1, 1, 1), BadIP }

Modes == {all, countryShort, countryLong + isp + latitude + elevation, 0}

\* the handle the program opens on the file and queries
Handles == {1}

\* one more slot is the handle a second goroutine opens, in SpecRace
Slots == {1, 2}

-----------------------------------------------------------------------------
(* The state machine. *)
(*   file       the database file every reader reads                        *)
(*   pc[h]      where the OpenDBWithReader call of slot h is                 *)
(*   db[h]      the DB of slot h: the zero DB until OpenDBWithReader         *)
(*              returns, then what it returned (Nil for nil)                 *)
(*   reader[h]  the byte source handed to that call                          *)
(*   openRes[h], closeRes[h]  what the calls on slot h did                   *)
(*   rangesSet  whether the package-level range bounds have been set         *)
(*   res        the query whose result the caller holds, prev the one before *)

NoQuery == [h |-> 0]

Init ==
    /\ file \in Files
    /\ pc = [h \in Slots |-> "idle"]
    /\ db = [h \in Slots |-> ZeroDB]
    /\ reader = [h \in Slots |-> "none"]
    /\ openRes = [h \in Slots |-> [ret |-> "none", err |-> "nil", failAt |-> 0]]
    /\ closeRes = [h \in Slots |-> [calls |-> 0, panicked |-> FALSE]]
    /\ rangesSet = FALSE
    /\ res = NoQuery
    /\ prev = NoQuery

\* a call has aborted the program, or does not return
Aborted ==
    \/ \E h \in Slots : closeRes[h].panicked \/ openRes[h].ret = "panic"
    \/ res # NoQuery /\ res.out.ret \in {"panic", "running"}

\* lines 343-474 of an OpenDBWithReader call on a fresh open reader; the
\* call has set the range bounds (lines 337-341)
Load(h, failAt) ==
    LET Done(o) ==
            /\ db' = [db EXCEPT ![h] = o.db]
            /\ reader' = [reader EXCEPT ![h] = IF o.closed THEN "closed" ELSE "open"]
            /\ openRes' = [openRes EXCEPT ![h] = [ret |-> o.ret, err |-> o.err,
                                                   failAt |-> failAt]]
    IN  /\ Done(OpenDBWithReader(file, [state |-> "open", failAt |-> failAt,
                                        alloc |-> "ok"], h))
        /\ pc' = [pc EXCEPT ![h] = "done"]
        /\ rangesSet' = TRUE
        /\ UNCHANGED <<file, closeRes, res, prev>>

\* db, err := OpenDBWithReader(reader), the result stored in slot h
Open(h, failAt) ==
    /\ ~Aborted
    /\ res = NoQuery
    /\ pc[h] = "idle"
    /\ Load(h, failAt)

\* a Close that leaves the byte source as it is
CloseKeepsOpen(h) ==
    /\ ~Aborted
    /\ res = NoQuery
    /\ db[h] # Nil
    /\ closeRes[h].calls < MaxCloses
    /\ closeRes' = [closeRes EXCEPT ![h].calls = @ + 1]
    /\ UNCHANGED <<file, pc, db, reader, openRes, rangesSet, res, prev>>

\* d.Close() on the DB of slot h; Close of a closed reader returns an error,
\* which is what Close returns; the zero DB has no reader (nil pointer
\* dereference)
Close(h) ==
    /\ ~Aborted
    /\ res = NoQuery
    /\ db[h] # Nil
    /\ closeRes[h].calls < MaxCloses
    /\ IF db[h].f = 0
       THEN /\ closeRes' = [closeRes EXCEPT ![h].panicked = TRUE,
                                            ![h].calls = @ + 1]
            /\ UNCHANGED reader
       ELSE /\ closeRes' = [closeRes EXCEPT ![h].calls = @ + 1]
            /\ reader' = [reader EXCEPT ![h] = "closed"]
    /\ UNCHANGED <<file, pc, db, openRes, rangesSet, res, prev>>

\* the package-level range bounds as they stand between calls
Ranges == IF rangesSet THEN RangesFinal ELSE RangesUnset

\* whether a row buffer size of d wraps
Wraps(d) ==
    d.metaOk /\ (d.meta.ipv4ColumnSize < 4 \/ d.meta.ipv6ColumnSize < 16)

\* what is kept of a query: its arguments, the reader at the time, the
\* kind and number checkIP gave the address, and the outcome
Asked(h, ip, mode, rd, rng, racing) ==
    LET Kept(c, out) ==
            [h |-> h, ip |-> ip, mode |-> mode, failAt |-> rd.failAt,
             rd |-> rd.state, racing |-> racing,
             iptype |-> c.ipType, ipnum |-> c.ipNum, out |-> out]
    IN  Kept(checkIP(db[h], ip, rng), query(file, rd, db[h], ip, mode, rng))

\* record, err := d.query(ip, mode) on the DB of slot h; an I/O error is
\* injected into an open reader only (every read of a closed one fails)
Query(h, ip, mode, failAt) ==
    /\ ~Aborted
    /\ res = NoQuery
    /\ db[h] # Nil
    /\ failAt # 0 => reader[h] = "open"
    /\ \E alloc \in IF Wraps(db[h]) THEN {"ok", "abort"} ELSE {"ok"} :
          res' = Asked(h, ip, mode,
                       [state |-> reader[h], failAt |-> failAt, alloc |-> alloc],
                       Ranges, FALSE)
    /\ UNCHANGED <<file, pc, db, reader, openRes, closeRes, rangesSet, prev>>

\* the caller drops the record it holds
Discard ==
    /\ ~Aborted
    /\ res # NoQuery
    /\ res' = NoQuery
    /\ UNCHANGED <<file, pc, db, reader, openRes, closeRes, rangesSet, prev>>

Next ==
    \/ \E h \in Handles, failAt \in 0..Len(HeaderFields) : Open(h, failAt)
    \/ \E h \in Handles : Close(h)
    \/ \E h \in Handles, ip \in IPs, mode \in Modes, failAt \in 0..MaxFaultAt :
          Query(h, ip, mode, failAt)
    \/ Discard

Spec == Init /\ [][Next]_vars

-----------------------------------------------------------------------------
(* Two goroutines: OpenDBWithReader in two steps, the first of which is    *)
(* the rewriting of the package-level range bounds (lines 337-341), and    *)
(* queries that run while another goroutine is in that step.               *)

\* OpenDBWithReader enters lines 337-341
OpenBegin(h) ==
    /\ pc[h] = "idle"
    /\ pc' = [pc EXCEPT ![h] = "setting"]
    /\ UNCHANGED <<file, db, reader, openRes, closeRes, rangesSet, res, prev>>

\* OpenDBWithReader leaves lines 337-341 and runs to its end
OpenEnd(h) ==
    /\ pc[h] = "setting"
    /\ Load(h, 0)

\* a goroutine is rewriting range bounds that were set before
Rewriting == rangesSet /\ \E g \in Slots : pc[g] = "setting"

\* the range bounds a query may read: big.Int.SetString rewrites the words
\* of the number in place, so a query that runs meanwhile reads the number
\* as it was, as it will be, or as it is in between
Observable == IF Rewriting THEN {RangesFinal, RangesTorn} ELSE {Ranges}

\* a query on an open handle while OpenDBWithReader calls may be running
QueryFirst(h, ip, mode) ==
    /\ res = NoQuery
    /\ pc[h] = "done"
    /\ db[h] # Nil
    /\ \E rng \in Observable :
          res' = Asked(h, ip, mode,
                       [state |-> reader[h], failAt |-> 0, alloc |-> "ok"],
                       rng, Rewriting)
    /\ UNCHANGED <<file, pc, db, reader, openRes, closeRes, rangesSet, prev>>

\* the same query again
QueryAgain ==
    /\ res # NoQuery
    /\ prev = NoQuery
    /\ res.out.ret \notin {"panic", "running"}
    /\ prev' = res
    /\ \E rng \in Observable :
          res' = Asked(res.h, res.ip, res.mode,
                       [state |-> reader[res.h], failAt |-> 0, alloc |-> "ok"],
                       rng, Rewriting)
    /\ UNCHANGED <<file, pc, db, reader, openRes, closeRes, rangesSet>>

NextRace ==
    \/ \E h \in Slots : OpenBegin(h)
    \/ \E h \in Slots : OpenEnd(h)
    \/ \E h \in Slots, ip \in IPs, mode \in {all, countryShort} :
          QueryFirst(h, ip, mode)
    \/ QueryAgain

SpecRace == Init /\ [][NextRace]_vars

-----------------------------------------------------------------------------
(* What the file holds, read off its layout *)

\* the section a query searched, and the row it matched
SectionOf(q) == IF q.iptype = 4 THEN 0 ELSE 1

RowIndex(q) == q.out.matched[1][2]

\* what row r of section s holds for the attribute fld
ValueOf(f, s, r, fld) ==
    IF fld.kind = "float" THEN FloatBitsOf(s, r, fld.pos[f.type + 1])
    ELSE IF fld.kind = "elev" THEN (IF r = 0 THEN 0 ELSE ElevOf(s, r))
    ELSE IF fld.slot = "CountryShort" THEN CountryShortOf(s, r)
    ELSE IF fld.slot = "CountryLong" THEN CountryLongOf(s, r)
    ELSE StrOf(f, s, r, fld.pos[f.type + 1])

\* the "not supported" placeholder in a string slot, 0 in a number slot
Placeholder(slot) ==
    IF slot \in StringSlots THEN parameterIsNotSupported
    ELSE IF slot \in FloatSlots THEN <<0, 0>>
    ELSE 0

\* the empty string in a string slot, 0 in a number slot
ZeroValue(slot) ==
    IF slot \in StringSlots THEN <<>>
    ELSE IF slot \in FloatSlots THEN <<0, 0>>
    ELSE 0

\* the record of row r of section s under the mask mode
Expected(f, s, r, mode) ==
    [slot \in {Fields[i].slot : i \in DOMAIN Fields} |->
        LET fld == Fields[CHOOSE i \in DOMAIN Fields : Fields[i].slot = slot]
        IN  IF BitAnd(mode, fld.bit) # 0 /\ fld.pos[f.type + 1] # 0
            THEN ValueOf(f, s, r, fld)
            ELSE Placeholder(slot)]

\* the caller holds the result of a query
Held == res # NoQuery

\* ... of a query on a handle that OpenDBWithReader returned
OnHandle == Held /\ db[res.h] # Nil /\ db[res.h].metaOk

\* ... none of whose reads failed
Clean == OnHandle /\ res.rd = "open" /\ res.failAt \notin 1..res.out.reads

\* ... one of whose reads failed
Failed ==
    /\ OnHandle
    /\ res.out.ret = "returned"
    /\ \/ res.rd = "open" /\ res.failAt \in 1..res.out.reads
       \/ res.rd = "closed" /\ res.out.reads > 0

\* ... that matched a row of a file whose rows hold every enabled column
Matched ==
    /\ Clean
    /\ res.out.ret = "returned"
    /\ res.out.err = "nil"
    /\ res.out.matched # <<>>

\* the maximum address of the kind of the query's address
MaxOf(q) == MaxIpOf(SectionOf(q))

-----------------------------------------------------------------------------
(* C1 *)

\* the number the search looks for: the address number, one less for the
\* maximum address of the kind
Sought(q) ==
    IF q.ipnum = MaxOf(q) THEN BigSub(q.ipnum, BigOne) ELSE q.ipnum

\* C1 as stated: for every address number a in [0, maxIp] of a section whose
\* rows ascend from 0 without gaps, the query ends with a matched row i,
\* ipFrom[i] <= a < ipFrom[i+1], the record decoded from it and a nil error.
C1_AsStated ==
    (Clean /\ WellFormed(file) /\ res.iptype # 0) =>
        /\ res.out.ret = "returned"
        /\ res.out.err = "nil"
        /\ res.out.matched # <<>>
        /\ BigCmp(FromOf(SectionOf(res), RowIndex(res)), res.ipnum) <= 0
        /\ BigCmp(res.ipnum, FromOf(SectionOf(res), RowIndex(res) + 1)) < 0
        /\ res.out.x = Expected(file, SectionOf(res), RowIndex(res), res.mode)

\* C1: for every address number a in [0, maxIp] of a section whose rows
\* ascend from 0 without gaps, the query ends with a matched row i, a nil
\* error and the record decoded from row i, where ipFrom[i] <= a < ipFrom[i+1]
\* for a < maxIp and ipFrom[i] <= maxIp - 1 < ipFrom[i+1] for a = maxIp (no
\* ipFrom[i+1] exceeds maxIp).
C1_Coverage ==
    (Clean /\ WellFormed(file) /\ res.iptype # 0) =>
        /\ res.out.ret = "returned"
        /\ res.out.err = "nil"
        /\ res.out.matched # <<>>
        /\ res.out.matched[1][1] = 0
        /\ RowIndex(res) < NRows(SectionOf(res))
        /\ BigCmp(FromOf(SectionOf(res), RowIndex(res)), Sought(res)) <= 0
        /\ BigCmp(Sought(res), FromOf(SectionOf(res), RowIndex(res) + 1)) < 0
        /\ res.out.x = Expected(file, SectionOf(res), RowIndex(res), res.mode)

C1_Witness ==
    /\ Clean
    /\ WellFormed(file)
    /\ file.idx
    /\ res.iptype = 6
    /\ res.mode = all
    /\ res.ipnum # MaxOf(res)
    /\ res.out.matched = << <<0, 1>> >>
    /\ res.out.x.CountryShort = CountryShortOf(1, 1)

-----------------------------------------------------------------------------
(* C2 *)

\* C2 as stated: for a valid address on an initialized handle, every slot
\* whose bit is not in the mask holds the empty string (0 in a float slot).
C2_AsStated ==
    (OnHandle /\ ParseIP(res.ip) # Nil /\ res.out.ret = "returned") =>
        \A i \in DOMAIN Fields :
            BitAnd(res.mode, Fields[i].bit) = 0 =>
                res.out.x[Fields[i].slot] = ZeroValue(Fields[i].slot)

\* C2: for a valid address on an initialized handle, every slot whose bit is
\* not in the mask holds what the query put there before the search: the
\* "not supported" placeholder in a string slot, 0 in a float slot.
C2_MaskIsolation ==
    (OnHandle /\ ParseIP(res.ip) # Nil /\ res.out.ret = "returned") =>
        \A i \in DOMAIN Fields :
            BitAnd(res.mode, Fields[i].bit) = 0 =>
                res.out.x[Fields[i].slot] = Placeholder(Fields[i].slot)

C2_Witness ==
    /\ Matched
    /\ res.mode = countryShort
    /\ res.out.x.CountryShort = CountryShortOf(SectionOf(res), RowIndex(res))
    /\ res.out.x.CountryLong = parameterIsNotSupported
    /\ res.out.x.Latitude = <<0, 0>>

-----------------------------------------------------------------------------
(* C3 *)

\* the handle of the query the caller holds had been closed before it
AfterClose == OnHandle /\ closeRes[res.h].calls > 0

NoClosePanics == \A h \in Handles : db[h] # Nil /\ db[h].metaOk => ~closeRes[h].panicked

\* C3 as stated: after Close, every query on the handle, whatever the ip
\* string, returns an error of the byte source, and a second Close does not
\* panic.
C3_AsStated ==
    /\ AfterClose => res.out.err # "nil"
    /\ NoClosePanics

\* C3: after Close, a query with an ip string that parses returns the error
\* of the byte source, from its first read; a query with one that does not
\* parse reads nothing and returns the invalid-address record with a nil
\* error; a second Close does not panic.
C3_CloseSafety ==
    /\ (AfterClose /\ ParseIP(res.ip) # Nil) =>
          /\ res.out.ret = "returned"
          /\ res.out.err = "closed"
          /\ res.out.reads = 1
    /\ (AfterClose /\ ParseIP(res.ip) = Nil) =>
          /\ res.out.err = "nil"
          /\ res.out.reads = 0
          /\ res.out.x = loadMessage(invalidAddress)
    /\ NoClosePanics

C3_Witness ==
    /\ AfterClose
    /\ closeRes[res.h].calls = MaxCloses
    /\ ~closeRes[res.h].panicked
    /\ res.ip = Dotted(8, 8, 8, 8)
    /\ res.out.err = "closed"

-----------------------------------------------------------------------------
(* C4 *)

\* C4 as stated: when a read of the byte source fails during a query, the
\* error reaches the caller and the query yields no record.
C4_AsStated == Failed => (res.out.err # "nil" /\ res.out.x = Nil)

\* C4: when a read of the byte source fails during a query, the query stops
\* at that read and the error reaches the caller, together with the record
\* as built so far: the placeholder in every slot that is not requested, and
\* in a requested slot the placeholder, the decoded value, or the empty
\* string when it is the slot whose string read failed.
C4_Propagated ==
    Failed =>
        /\ res.out.err = (IF res.rd = "open" THEN "io" ELSE "closed")
        /\ res.out.reads = (IF res.rd = "open" THEN res.failAt ELSE 1)
        /\ res.out.x # Nil
        /\ \A i \in DOMAIN Fields :
              \/ res.out.x[Fields[i].slot] = Placeholder(Fields[i].slot)
              \/ /\ BitAnd(res.mode, Fields[i].bit) # 0
                 /\ \/ res.out.x[Fields[i].slot] = <<>>
                    \/ /\ res.out.matched # <<>>
                       /\ res.out.x[Fields[i].slot] =
                             ValueOf(file, SectionOf(res), RowIndex(res), Fields[i])

C4_Witness ==
    /\ Failed
    /\ res.rd = "open"
    /\ res.mode = all
    /\ res.out.err = "io"
    /\ res.out.matched # <<>>
    /\ res.out.x.CountryShort = CountryShortOf(SectionOf(res), RowIndex(res))
    /\ res.out.x.CountryLong = <<>>

-----------------------------------------------------------------------------
(* C5 *)

\* C5 as stated: on a handle opened from a header with a product type in
\* 1..24 and any column count, every query returns (a record or an error of
\* the byte source) and never aborts.
C5_Total == OnHandle => res.out.ret = "returned"

-----------------------------------------------------------------------------
(* C6 *)

\* C6 as stated: a query repeated on an open handle returns the identical
\* record and error, whatever OpenDBWithReader calls run meanwhile.
C6_Deterministic == prev # NoQuery => res.out = prev.out

-----------------------------------------------------------------------------
(* C7 *)

\* the ip string of the address one below the maximum of a kind
BelowMax(q) ==
    IF q.iptype = 4 THEN Dotted(255, 255, 255, 254)
    ELSE Colon(<<65535, 65535, 65535, 65535, 65535, 65535, 65535, 65534>>)

\* C7: a query for the maximum address of a kind returns what the query for
\* the address one below it returns, read for read; in a file whose rows
\* ascend from 0 without gaps that is the record of the final row of the
\* section, with a nil error.
C7_Boundary ==
    (OnHandle /\ res.iptype # 0 /\ res.ipnum = MaxOf(res)) =>
        /\ res.out = query(file, [state |-> res.rd, failAt |-> res.failAt,
                                  alloc |-> "ok"],
                           db[res.h], BelowMax(res), res.mode, Ranges)
        /\ (Clean /\ WellFormed(file)) =>
              /\ res.out.ret = "returned"
              /\ res.out.err = "nil"
              /\ res.out.matched = <<U32FromInt(NRows(SectionOf(res)) - 1)>>

C7_Witness ==
    /\ Clean
    /\ WellFormed(file)
    /\ res.ip = Colon(MaxV6)
    /\ res.ipnum = MaxOf(res)
    /\ res.mode = all
    /\ res.out.err = "nil"
    /\ res.out.matched = << <<0, 3>> >>

-----------------------------------------------------------------------------
(* C8 *)

\* C8: for an ip string that does not parse, on an initialized handle and
\* under any mask, the query returns a nil error and a record with "Invalid
\* IP address." in every string slot and 0 in every float slot, and issues no
\* read.
C8_InvalidAddress ==
    (OnHandle /\ ParseIP(res.ip) = Nil) =>
        /\ res.out.ret = "returned"
        /\ res.out.err = "nil"
        /\ res.out.reads = 0
        /\ \A i \in DOMAIN Fields :
              res.out.x[Fields[i].slot] =
                 (IF Fields[i].slot \in StringSlots THEN invalidAddress
                  ELSE ZeroValue(Fields[i].slot))

C8_Witness ==
    /\ OnHandle
    /\ res.ip = BadIP
    /\ res.rd = "open"
    /\ res.failAt = 1
    /\ res.mode = countryShort
    /\ res.out.reads = 0
    /\ res.out.x.Region = invalidAddress

-----------------------------------------------------------------------------
(* C9 *)

\* C9: for a matched row, a requested attribute whose schema column for the
\* product type is zero keeps the "not supported" placeholder in its string
\* slot (0 in a float slot), a requested attribute whose schema column is
\* nonzero holds what the row holds for it, and the enable flag of an
\* attribute is set exactly when its schema column is nonzero.
C9_Schema ==
    /\ Matched =>
          \A i \in DOMAIN Fields :
              BitAnd(res.mode, Fields[i].bit) # 0 =>
                  res.out.x[Fields[i].slot] =
                     (IF Fields[i].pos[file.type + 1] = 0
                      THEN Placeholder(Fields[i].slot)
                      ELSE ValueOf(file, SectionOf(res), RowIndex(res), Fields[i]))
    /\ \A h \in Handles :
          (db[h] # Nil /\ db[h].metaOk) =>
              \A i \in DOMAIN Fields :
                  db[h][Fields[i].en] <=>
                     Fields[i].pos[db[h].meta.databaseType + 1] # 0

C9_Witness ==
    /\ Matched
    /\ file.type = 5
    /\ res.mode = countryLong + isp + latitude + elevation
    /\ res.out.x.Isp = parameterIsNotSupported
    /\ res.out.x.Elevation = 0
    /\ res.out.x.Latitude = FloatBitsOf(SectionOf(res), RowIndex(res),
                                        latitudePosition[file.type + 1])
    /\ res.out.x.CountryLong = CountryLongOf(SectionOf(res), RowIndex(res))

-----------------------------------------------------------------------------
(* C10 *)

\* C10: when one of the 11 header reads of OpenDBWithReader fails, the call
\* returns that error and no handle and has closed the byte source; when
\* none fails, it returns an initialized handle (metaOk) and leaves the byte
\* source open.
C10_OpenFailure ==
    \A h \in Handles :
        pc[h] = "done" =>
            IF openRes[h].failAt \in 1..Len(HeaderFields)
            THEN /\ openRes[h].ret = "returned"
                 /\ openRes[h].err = "io"
                 /\ db[h] = Nil
                 /\ reader[h] = "closed"
            ELSE /\ openRes[h].ret = "returned"
                 /\ openRes[h].err = "nil"
                 /\ db[h] # Nil
                 /\ db[h].metaOk
                 /\ closeRes[h].calls = 0 => reader[h] = "open"

C10_Witness ==
    \E h \in Handles :
        /\ pc[h] = "done"
        /\ openRes[h].failAt = Len(HeaderFields)
        /\ openRes[h].err = "io"
        /\ reader[h] = "closed"
        /\ db[h] = Nil

-----------------------------------------------------------------------------
(* C11 *)

\* the same dotted quad written the other way: "a.b.c.d" for
\* "::ffff:a.b.c.d" and back
OtherForm(ip) == IF ip.form = "mapped" THEN Dotted(ip.o[1], ip.o[2], ip.o[3], ip.o[4])
                 ELSE Mapped(ip.o[1], ip.o[2], ip.o[3], ip.o[4])

\* the dotted quads of the addresses queried
Quads == {ip \in IPs : ip.form \in {"dotted", "mapped"}}

\* C11: for every dotted quad W.X.Y.Z, checkIP gives "::ffff:W.X.Y.Z" and
\* "W.X.Y.Z" the same kind, number and index offset on every opened handle,
\* and a query for the one returns what the query for the other returns.
C11_MappedRoundTrip ==
    /\ \A h \in Handles :
          (db[h] # Nil /\ db[h].metaOk) =>
              \A ip \in Quads :
                  checkIP(db[h], ip, Ranges) = checkIP(db[h], OtherForm(ip), Ranges)
    /\ (OnHandle /\ res.ip \in Quads) =>
          res.out = query(file, [state |-> res.rd, failAt |-> res.failAt,
                                 alloc |-> "ok"],
                          db[res.h], OtherForm(res.ip), res.mode, Ranges)

C11_Witness ==
    /\ Clean
    /\ file.idx
    /\ res.ip = Mapped(8, 8, 8, 8)
    /\ res.mode = all
    /\ res.iptype = 4
    /\ res.ipnum = <<0, 0, 0, 0, 0, 0, 2056, 2056>>
    /\ checkIP(db[res.h], res.ip, Ranges).ipIndex # <<0, 0>>
    /\ res.out.err = "nil"
    /\ res.out.matched = << <<0, 2>> >>
    /\ res.out.x.CountryShort = CountryShortOf(0, 2)

-----------------------------------------------------------------------------
(* C12 *)

\* a search that cannot end: the rows of the section have no width, so
\* every iteration reads ipfrom and ipto at the start address; no read
\* fails; the number sought is below what is read there, so every iteration
\* takes high = mid - 1, which wraps at mid = 0; and low stays 0 <= high
StuckAtBase(q) ==
    LET Below(from) == from.err = "nil" /\ BigCmp(Sought(q), BigOfU32(from.val)) < 0
    IN  /\ q.iptype = 4
        /\ db[q.h].meta.ipv4ColumnSize = 0
        /\ db[q.h].meta.ipv4IndexBaseAddr = <<0, 0>>
        /\ q.rd = "open"
        /\ q.failAt = 0
        /\ Below(readUint32(file, [state |-> "open", failAt |-> 0, alloc |-> "ok"],
                            0, db[q.h].meta.ipv4DatabaseAddr))

\* the searches the model gives up on after MaxIter iterations are searches
\* that cannot end
RunningIsStuck == (Held /\ res.out.ret = "running") => StuckAtBase(res)

\* C12 as stated: for every address, every file contents and every initial
\* window, the search loop of query ends after finitely many iterations,
\* with a match, not-found or an error of the byte source.
C12_Terminates == OnHandle => res.out.ret # "running"

-----------------------------------------------------------------------------
(* C13 *)

\* C13 as stated: for every column count of the header (0..255) the row
\* sizes of an opened handle are columnCount * 4 for the v4 section and
\* 16 + (columnCount - 1) * 4 for the v6 section, as 32-bit values.
C13_Strides ==
    \A h \in Handles :
        (db[h] # Nil /\ db[h].metaOk) =>
            /\ db[h].meta.ipv4ColumnSize = 4 * db[h].meta.databaseColumn
            /\ db[h].meta.ipv6ColumnSize = 16 + 4 * (db[h].meta.databaseColumn - 1)

-----------------------------------------------------------------------------
(* C14 *)

\* addresses written with colons around the ends of the three ranges
Around ==
    { Colon(<<0, 0, 0, 0, 0, 65534, 65535, 65535>>),
      Colon(<<0, 0, 0, 0, 0, 65535, 0, 0>>),
      Colon(<<0, 0, 0, 0, 0, 65535, 65535, 65535>>),
      Colon(<<0, 0, 0, 0, 1, 0, 0, 0>>),
      Colon(<<8193, 0, 0, 0, 0, 0, 0, 0>>),
      Colon(<<8193, 0, 65535, 65535, 65535, 65535, 65535, 65535>>),
      Colon(<<8193, 1, 0, 0, 0, 0, 0, 0>>),
      Colon(<<8192, 65535, 65535, 65535, 65535, 65535, 65535, 65535>>),
      Colon(<<8194, 65535, 65535, 65535, 65535, 65535, 65535, 65535>>),
      Colon(<<8195, 0, 0, 0, 0, 0, 0, 0>>) }

\* the addresses of the model that are no dotted quads
NonQuads == {ip \in IPs \cup Around : ip.form # "dotted" /\ ParseIP(ip) # Nil}

\* the kind and number the groups g of an address stand for: an
\* IPv4-mapped address (::ffff:0:0/96) for the v4 number of its last two
\* groups, a 6to4 address (2002::/16) for the v4 number of its second and
\* third group, a Teredo address (2001:0::/32) for the v4 number that is
\* the complement of its last two groups, any other for itself
Classified(g) ==
    IF (\A i \in 1..5 : g[i] = 0) /\ g[6] = 65535
    THEN [ipType |-> 4, ipNum |-> <<0, 0, 0, 0, 0, 0, g[7], g[8]>>]
    ELSE IF g[1] = 8194
    THEN [ipType |-> 4, ipNum |-> <<0, 0, 0, 0, 0, 0, g[2], g[3]>>]
    ELSE IF g[1] = 8193 /\ g[2] = 0
    THEN [ipType |-> 4, ipNum |-> <<0, 0, 0, 0, 0, 0, 65535 - g[7], 65535 - g[8]>>]
    ELSE [ipType |-> 6, ipNum |-> g]

\* kind and number of what checkIP returns
KindOf(c) == [ipType |-> c.ipType, ipNum |-> c.ipNum]

\* C14: on an opened handle checkIP gives every address that is no dotted
\* quad the kind and number of its class: IPv4-mapped -> v4, the number
\* minus the mapping base; 6to4 -> v4, (number >> 80) masked to 32 bits;
\* Teredo -> v4, the complement of the number masked to 32 bits; any other
\* -> v6, the number unchanged; a v4 number lies in [0, 2^32-1]; and the
\* query has searched for that kind and number.
C14_Classes ==
    /\ \A h \in Handles :
          (db[h] # Nil /\ db[h].metaOk) =>
              \A ip \in NonQuads :
                  /\ KindOf(checkIP(db[h], ip, Ranges)) = Classified(SetBytes(ParseIP(ip)))
                  /\ checkIP(db[h], ip, Ranges).ipType = 4 =>
                        \A i \in 1..6 : checkIP(db[h], ip, Ranges).ipNum[i] = 0
    /\ (OnHandle /\ res.ip \in NonQuads) =>
          [ipType |-> res.iptype, ipNum |-> res.ipnum] =
             Classified(SetBytes(ParseIP(res.ip)))

C14_Witness ==
    /\ Clean
    /\ WellFormed(file)
    /\ res.ip = Colon(<<8193, 0, 16, 0, 0, 0, 63479, 63479>>)
    /\ res.iptype = 4
    /\ res.ipnum = <<0, 0, 0, 0, 0, 0, 2056, 2056>>
    /\ res.mode = countryShort
    /\ res.out.matched = << <<0, 2>> >>
    /\ res.out.x.CountryShort = CountryShortOf(0, 2)

-----------------------------------------------------------------------------
(* C15 *)

\* a reader no read of which fails
Sound == [state |-> "open", failAt |-> 0, alloc |-> "ok"]

\* the file with the same rows and no index tables, and the handle
\* OpenDBWithReader returns for it
Unindexed(f) == [f EXCEPT !.idx = FALSE]

PlainDB(f) == OpenDBWithReader(Unindexed(f), Sound, 1).db

\* the index entry the query read: the window [low, high]
IndexWindow(q) ==
    LET At(pos) == <<readUint32(file, Sound, 0, pos).val,
                     readUint32(file, Sound, 1, U32Add(pos, <<0, 4>>)).val>>
    IN  At(checkIP(db[q.h], q.ip, Ranges).ipIndex)

\* C15: on a file with index tables whose entries bound the rows of their
\* prefix, a query no read of which fails returns the record, the error and
\* the matched row that the query returns on the file with the same rows and
\* no index tables, where the search starts from the window [0, rowCount].
C15_IndexRefines ==
    (Clean /\ file.idx /\ WellFormed(file) /\ res.iptype # 0) =>
        LET Same(plain) ==
                /\ res.out.ret = plain.ret
                /\ res.out.x = plain.x
                /\ res.out.err = plain.err
                /\ res.out.matched = plain.matched
        IN  /\ checkIP(PlainDB(file), res.ip, Ranges).ipIndex = <<0, 0>>
            /\ Same(query(Unindexed(file), Sound, PlainDB(file), res.ip,
                          res.mode, Ranges))

C15_Witness ==
    /\ Clean
    /\ file.idx
    /\ file.type = 24
    /\ res.ip = Dotted(8, 8, 8, 8)
    /\ res.mode = all
    /\ IndexWindow(res) = << <<0, 2>>, <<0, 2>> >>
    /\ res.out.matched = << <<0, 2>> >>
    /\ res.out.err = "nil"
    /\ res.out.x.UsageType = StrOf(file, 0, 2, usageTypePosition[file.type + 1])

=============================================================================
